---- MODULE Spec2Model ----
(***************************************************************************)
(* Model of src/blockchainRequests.js: the allocation of a rent credit     *)
(* over the selected NFTs (processNfts, checkoutNFTs, checkoutMetamask),   *)
(* the paged walk over a wallet's NFTs (getWalletNfts, getVaultNFTs),      *)
(* the counting walk with its retry loop (getTotalWalletNfts) and the      *)
(* retrying fetch helper (exponentialBackoff), two walks interleaved at    *)
(* their awaits, and the image URI rewrite of repackageMetadata.           *)
(*                                                                         *)
(* Amounts.  The source keeps fees and the credit as JS numbers (binary    *)
(* floating point) and converts them to wei with                          *)
(* parseEther(x.toFixed(18)), and back with parseFloat(formatEther(w)).    *)
(* TLC has 32-bit integers, so the two precisions are scaled down          *)
(* together: Decimals fractional digits instead of 18, MantBits mantissa   *)
(* bits instead of 53.  As in the source, 10^Decimals > 2^MantBits in the  *)
(* range of the amounts used, so a number cannot hold every wei amount.    *)
(***************************************************************************)
EXTENDS Integers, Sequences, FiniteSets

\* ------------------------------------------------------------------ bounds
Decimals == 2      \* fractional digits of toFixed / parseEther (18 in the source)
MantBits == 4      \* mantissa bits of a JS number (53 in the source)
MaxAmount == 3     \* small fees and credits: 0 .. MaxAmount wei
MaxTenths == 2     \* large fees and credits: 1 .. MaxTenths tenths of an ether
MaxNfts == 3       \* longest selection
MaxItems == 25     \* most NFTs in the index for a paged walk
MaxPage == 3       \* largest page requested
MaxCountItems == 10 \* most NFTs in the index for a counting walk
MaxLockPeriod == 2 \* chain states: every k-th NFT is rented, k <= MaxLockPeriod
RandomSteps == 3   \* Math.random() takes the values r / RandomSteps, r < RandomSteps
MaxSignedNfts == 2 \* longest selection when amounts may be negative
MaxLiveItems == 5  \* most NFTs in the index when termination is checked
MaxConcItems == 2  \* NFTs in the index of the larger wallet of two interleaved walks
MaxRest == 2       \* longest tail of an image URI
MaxAccounts == 2   \* the wallet accounts are 1 .. MaxAccounts
MaxEvents == 3     \* most accountsChanged events

\* --------------------------------------------------------------- constants
pageSize == 12     \* getWalletNfts, getVaultNFTs
maxWalks == 5      \* getTotalWalletNfts: retryCount >= 5 throws
initialDelay == 1000
maxRetries == 5    \* exponentialBackoff
baseDelay == 250   \* exponentialBackoff, ms

\* ------------------------------------------------------------ arithmetic
RECURSIVE Pow(_, _)
Pow(b, n) == IF n = 0 THEN 1 ELSE b * Pow(b, n - 1)

\* one ether in wei (scaled)
Unit == Pow(10, Decimals)

Min(a, b) == IF a <= b THEN a ELSE b
Max(a, b) == IF a >= b THEN a ELSE b

\* --------------------------------------------------------- JS numbers
\* A JS number is Zero or [m, e] with value m * 2^e and
\* 2^(MantBits-1) <= |m| < 2^MantBits (normalised; no subnormals are reached).
Zero == [m |-> 0, e |-> 0]
MantLo == Pow(2, MantBits - 1)
MantHi == Pow(2, MantBits)
\* num/den scaled by 2^(-e), as the pair <<numerator, denominator>>
Scaled(num, den, e) ==
    IF e >= 0 THEN <<num, den * Pow(2, e)>> ELSE <<num * Pow(2, 0 - e), den>>

\* round to nearest, ties to even: the rounding of every JS number operation
RoundHalfEven(n, d) ==
    LET q == n \div d
        r == n % d
    IN  IF 2 * r > d THEN q + 1
        ELSE IF 2 * r < d THEN q
        ELSE IF q % 2 = 0 THEN q ELSE q + 1

\* the exponent e with 2^(MantBits-1) <= (num/den) / 2^e < 2^MantBits
RECURSIVE Exponent(_, _, _)
Exponent(num, den, e) ==
    LET s == Scaled(num, den, e)
    IN  IF s[1] >= MantHi * s[2] THEN Exponent(num, den, e + 1)
        ELSE IF s[1] < MantLo * s[2] THEN Exponent(num, den, e - 1)
        ELSE e

\* the JS number nearest to the rational num/den (parseFloat of a decimal
\* string, or a decimal literal)
NearestNumber(num, den) ==
    IF num = 0 THEN Zero
    ELSE LET e == Exponent(num, den, 0)
             s == Scaled(num, den, e)
             m == RoundHalfEven(s[1], s[2])
         IN  IF m = MantHi THEN [m |-> MantLo, e |-> e + 1] ELSE [m |-> m, e |-> e]

\* x < y on JS numbers
NumLess(x, y) ==
    IF y.m = 0 THEN FALSE
    ELSE IF x.m = 0 THEN TRUE
    ELSE IF x.e >= y.e THEN x.m * Pow(2, x.e - y.e) < y.m
    ELSE x.m < y.m * Pow(2, y.e - x.e)

\* ------------------------------------------------- decimal strings, wei
\* A decimal string with Decimals fractional digits is [whole, frac]:
\* whole is its integer part, frac its fractional digits read as a number
\* (trailing zeros, which formatEther strips, change neither parser).

\* -x
Negate(x) == [m |-> 0 - x.m, e |-> x.e]

\* Number.prototype.toFixed(Decimals): the decimal nearest to |x|, ties
\* upward, with the sign of x ("-0.00" for a small negative x); a negative
\* string has whole and frac negated
ToFixedAbs(a, e) ==
    LET n == IF e >= 0 THEN a * Pow(2, e) * Unit
             ELSE (2 * a * Unit + Pow(2, 0 - e)) \div Pow(2, 1 - e)
    IN  [whole |-> n \div Unit, frac |-> n % Unit]

\* the decimal string r with the sign s
SignedString(s, r) == [whole |-> s * r.whole, frac |-> s * r.frac]

ToFixed(x) ==
    SignedString(IF x.m < 0 THEN 0 - 1 ELSE 1,
                 ToFixedAbs(IF x.m < 0 THEN 0 - x.m ELSE x.m, x.e))

\* ethers.utils.parseEther: decimal string -> wei
ParseEther(s) == s.whole * Unit + s.frac

\* ethers.utils.formatEther: wei -> decimal string
FormatEther(w) == [whole |-> w \div Unit, frac |-> w % Unit]

\* parseFloat: decimal string -> nearest JS number
ParseFloat(s) == NearestNumber(s.whole * Unit + s.frac, Unit)

\* BigNumber.toHexString: "0x" and an even number of hex digits ("0x00" for 0);
\* a hex string is the sequence of its digits after "0x"
RECURSIVE HexDigits(_)
HexDigits(n) == IF n = 0 THEN << >> ELSE Append(HexDigits(n \div 16), n % 16)

ToHexString(n) ==
    LET d == HexDigits(n)
    IN  IF n = 0 THEN <<0, 0>> ELSE IF Len(d) % 2 = 1 THEN <<0>> \o d ELSE d

\* ethers.utils.hexStripZeros: drop the leading zero digits ("0x" for 0)
RECURSIVE HexStripZeros(_)
HexStripZeros(h) ==
    IF h = << >> THEN << >>
    ELSE IF Head(h) = 0 THEN HexStripZeros(Tail(h)) ELSE h

\* the literal 1e-18 of processNfts: the JS number nearest to one wei
OneWeiLiteral == NearestNumber(1, Unit)

\* ------------------------------------------------------------ processNfts
\* the accumulators before the forEach
EmptyAllocation(totalCreditUsed) ==
    [totalFee |-> 0, nftAddresses |-> << >>, tokenIds |-> << >>,
     values |-> << >>, creditUsed |-> << >>, totalCreditUsed |-> totalCreditUsed]

\* mutant: the value is the fee less the credit the NFT consumed
NftValueAfterCredit(nftFeeWei, used) == HexStripZeros(ToHexString(nftFeeWei - used))

\* the value pushed to values for one NFT (used, the credit the NFT consumes,
\* plays no part in it)
NftValue(nftFeeWei, used) == HexStripZeros(ToHexString(nftFeeWei))

\* mutant: no test of the fee against one wei
NftFeeBigNumberNoFloor(fee, nftFeeWei) == nftFeeWei

\* the fee that is eligible for credit
NftFeeBigNumber(fee, nftFeeWei) == IF NumLess(fee, OneWeiLiteral) THEN 0 ELSE nftFeeWei

\* the credit carried to the next iteration, as a JS number
CarryCredit(creditWei) == ParseFloat(FormatEther(creditWei))

\* mutant: totalFee accumulates the fee less the credit consumed
ProcessOneTotalAfterCredit(acc, nft) ==
    LET nftFeeWei == ParseEther(ToFixed(nft.fee))
        nftFeeBigNumber == NftFeeBigNumber(nft.fee, nftFeeWei)
        totalCreditUsedBigNumber == ParseEther(ToFixed(acc.totalCreditUsed))
        enough == totalCreditUsedBigNumber >= nftFeeBigNumber
        used == IF enough THEN nftFeeBigNumber ELSE totalCreditUsedBigNumber
        left == IF enough THEN totalCreditUsedBigNumber - nftFeeBigNumber ELSE 0
    IN  [totalFee |-> acc.totalFee + nftFeeWei - used,
         nftAddresses |-> Append(acc.nftAddresses, nft.address),
         tokenIds |-> Append(acc.tokenIds, nft.tokenId),
         values |-> Append(acc.values, NftValue(nftFeeWei, used)),
         creditUsed |-> Append(acc.creditUsed, used),
         totalCreditUsed |-> CarryCredit(left)]

\* one iteration of the forEach callback
ProcessOne(acc, nft) ==
    LET nftFeeWei == ParseEther(ToFixed(nft.fee))
        nftFeeBigNumber == NftFeeBigNumber(nft.fee, nftFeeWei)
        totalCreditUsedBigNumber == ParseEther(ToFixed(acc.totalCreditUsed))
        enough == totalCreditUsedBigNumber >= nftFeeBigNumber
        used == IF enough THEN nftFeeBigNumber ELSE totalCreditUsedBigNumber
        left == IF enough THEN totalCreditUsedBigNumber - nftFeeBigNumber ELSE 0
    IN  [totalFee |-> acc.totalFee + nftFeeWei,
         nftAddresses |-> Append(acc.nftAddresses, nft.address),
         tokenIds |-> Append(acc.tokenIds, nft.tokenId),
         values |-> Append(acc.values, NftValue(nftFeeWei, used)),
         creditUsed |-> Append(acc.creditUsed, used),
         totalCreditUsed |-> CarryCredit(left)]

RECURSIVE ForEach(_, _)
ForEach(acc, list) ==
    IF list = << >> THEN acc ELSE ForEach(ProcessOne(acc, Head(list)), Tail(list))

\* the object processNfts returns; totalCreditUsed is its local variable
\* after the loop (the credit left over), kept for the properties
processNfts(list, totalCreditUsed) ==
    LET acc == ForEach(EmptyAllocation(totalCreditUsed), list)
    IN  [totalFee |-> HexStripZeros(ToHexString(acc.totalFee)),
         nftAddresses |-> acc.nftAddresses,
         tokenIds |-> acc.tokenIds,
         values |-> acc.values,
         creditUsed |-> acc.creditUsed,
         totalCreditUsed |-> acc.totalCreditUsed]

\* --------------------------------------------------------------- state
VARIABLES
    nfts,             \* checkout: the selection, [null, list]; list of [address, tokenId, fee]
    totalCreditUsed,  \* checkout: the credit argument, a JS number
    entry,            \* checkout: the function called, or "none"
    cpc,              \* checkout: "idle", "returned", "sent" (hash received), "threw"
    txs,              \* checkout: the transactions submitted, in order
    fn,               \* walk: the function called, or "none"
    owner,            \* walk: is the wallet (or address list) argument given
    ownedNfts,        \* walk: the index holds the NFTs 1 .. ownedNfts, in its order
    lockedTill,       \* walk: chain state, the lock expiry of each NFT (0: not rented)
    page,             \* walk: the page argument
    type,             \* count: the type argument, "rented" or "owned"
    epc,              \* walk: control position
    pos,              \* walk: NFTs taken from the index so far in this walk
    count,            \* page: the local count
    deposits,         \* page: the local deposits (vault walk: nfts)
    rentals,          \* page: the local rentals
    calls,            \* walk: the contract reads that returned, <<method, NFT>>, in order
    retryCount,       \* count: the local retryCount
    rentedCount,      \* count: the local rentedCount
    ownedCount,       \* count: the local ownedCount
    sleeps,           \* count: the delays slept, in order
    bpc,              \* backoff: "idle", "call" (fetchFn awaited), "wait" (timer), "returned"
    attempt,          \* backoff: the loop variable i
    result,           \* backoff: what the last fetchFn call returned
    delays,           \* backoff: the delays waited, in order, as fractions of a ms
    fetched,          \* backoff: the number of fetchFn calls made
    returnValue,      \* backoff: what exponentialBackoff returned
    suspended,        \* walk: the frame (arguments and locals) of a second call, waiting at an await
    uri,              \* metadata: metaData.image as repackageMetadata found it
    image,            \* metadata: metaData.image
    rpc,              \* metadata: "idle", "once", "returned" (rewritten twice)
    publicKey,        \* session: the publicKey argument of initializeProvider (0: null)
    session,          \* session: what the setters and the accounts item hold
    handlers          \* session: the calls of accountsChangedHandler, in event order

checkoutVars == <<nfts, totalCreditUsed, entry, cpc, txs>>
walkVars == <<fn, owner, ownedNfts, lockedTill, page, type, epc, pos, count,
              deposits, rentals, calls, retryCount, rentedCount, ownedCount, sleeps>>
backoffVars == <<bpc, attempt, result, delays, fetched, returnValue>>
metadataVars == <<uri, image, rpc>>
sessionVars == <<publicKey, session, handlers>>
vars == <<publicKey, session, handlers, suspended, uri, image, rpc,
          bpc, attempt, result, delays, fetched, returnValue,
          nfts, totalCreditUsed, entry, cpc, txs,
          fn, owner, ownedNfts, lockedTill, page, type, epc, pos, count,
          deposits, rentals, calls, retryCount, rentedCount, ownedCount, sleeps>>

\* ------------------------------------------------------- checkout inputs
\* amounts a caller passes: small ones (whole wei), large ones (tenths of an
\* ether) and one below a wei
Amounts ==
    {NearestNumber(u, Unit) : u \in 0 .. MaxAmount}
        \cup {NearestNumber(t, 10) : t \in 1 .. MaxTenths}
        \cup {NearestNumber(3, 4 * Unit)}

FeeLists == UNION {[1 .. n -> Amounts] : n \in 0 .. MaxNfts}

Selection(fees) ==
    [null |-> FALSE,
     list |-> [i \in 1 .. Len(fees) |-> [address |-> "nft", tokenId |-> i, fee |-> fees[i]]]]

NullSelection == [null |-> TRUE, list |-> << >>]

CheckoutIdle ==
    /\ nfts = NullSelection
    /\ totalCreditUsed = Zero
    /\ entry = "none"
    /\ cpc = "returned"
    /\ txs = << >>

\* amounts of either sign: zero, one wei, a tenth of an ether, and below a
\* wei the two that toFixed rounds to one wei and to zero
SignedAmounts ==
    LET p == {NearestNumber(1, Unit), NearestNumber(1, 10),
              NearestNumber(3, 4 * Unit), NearestNumber(1, 4 * Unit)}
    IN  {Zero} \cup p \cup {Negate(x) : x \in p}

SignedFeeLists == UNION {[1 .. n -> SignedAmounts] : n \in 0 .. MaxSignedNfts}

SignedArgs ==
    /\ nfts \in {NullSelection} \cup {Selection(f) : f \in SignedFeeLists}
    /\ totalCreditUsed \in SignedAmounts
    /\ entry = "none"
    /\ cpc = "idle"
    /\ txs = << >>

CheckoutArgs ==
    /\ nfts \in {NullSelection} \cup {Selection(f) : f \in FeeLists}
    /\ totalCreditUsed \in Amounts
    /\ entry = "none"
    /\ cpc = "idle"
    /\ txs = << >>

\* ------------------------------------------------------------- checkout
\* the transaction of the single-NFT branch of checkoutNFTs; its credit
\* argument is the JS number totalCreditUsed itself
SingleTx(nft, credit) ==
    [method |-> "withdraw",
     value |-> HexStripZeros(ToHexString(ParseEther(ToFixed(nft.fee)))),
     nftAddresses |-> <<nft.address>>,
     tokenIds |-> <<nft.tokenId>>,
     values |-> << >>,
     creditUsed |-> <<credit>>,
     left |-> credit]

\* the transaction built from processNfts (withdrawMultiple)
MultipleTx(list, credit) ==
    LET r == processNfts(list, credit)
    IN  [method |-> "withdrawMultiple",
         value |-> r.totalFee,
         nftAddresses |-> r.nftAddresses,
         tokenIds |-> r.tokenIds,
         values |-> r.values,
         creditUsed |-> r.creditUsed,
         left |-> r.totalCreditUsed]

\* hexStripZeros(nftFeeWei.toHexString()) throws for a negative fee in wei:
\* "-0x01" is no hex string
HexThrows(list) == \E i \in 1 .. Len(list) : ParseEther(ToFixed(list[i].fee)) < 0

\* checkoutNFTs: nothing for a null selection; else one transaction is built
\* and handed to sendTransactions, which returns a hash or throws
CheckoutNFTsNull ==
    /\ cpc = "idle"
    /\ nfts.null
    /\ entry' = "checkoutNFTs"
    /\ cpc' = "returned"
    /\ UNCHANGED <<nfts, totalCreditUsed, txs>>
    /\ UNCHANGED walkVars
    /\ UNCHANGED backoffVars
    /\ UNCHANGED <<suspended, metadataVars, sessionVars>>

CheckoutNFTsSingle ==
    /\ cpc = "idle"
    /\ ~nfts.null
    /\ Len(nfts.list) = 1
    /\ entry' = "checkoutNFTs"
    /\ IF HexThrows(nfts.list)
       THEN cpc' = "threw" /\ UNCHANGED txs
       ELSE /\ txs' = Append(txs, SingleTx(nfts.list[1], totalCreditUsed))
            /\ \E ok \in BOOLEAN : cpc' = IF ok THEN "sent" ELSE "threw"
    /\ UNCHANGED <<nfts, totalCreditUsed>>
    /\ UNCHANGED walkVars
    /\ UNCHANGED backoffVars
    /\ UNCHANGED <<suspended, metadataVars, sessionVars>>

\* mutant: a failed submission is issued a second time
CheckoutNFTsMultipleResend ==
    /\ cpc = "idle"
    /\ ~nfts.null
    /\ Len(nfts.list) # 1
    /\ entry' = "checkoutNFTs"
    /\ IF HexThrows(nfts.list)
       THEN cpc' = "threw" /\ UNCHANGED txs
       ELSE \E ok \in BOOLEAN :
               LET tx == MultipleTx(nfts.list, totalCreditUsed)
               IN  IF ok THEN txs' = Append(txs, tx) /\ cpc' = "sent"
                   ELSE /\ txs' = Append(Append(txs, tx), tx)
                        /\ \E again \in BOOLEAN : cpc' = IF again THEN "sent" ELSE "threw"
    /\ UNCHANGED <<nfts, totalCreditUsed>>
    /\ UNCHANGED walkVars
    /\ UNCHANGED backoffVars
    /\ UNCHANGED <<suspended, metadataVars, sessionVars>>

CheckoutNFTsMultiple ==
    /\ cpc = "idle"
    /\ ~nfts.null
    /\ Len(nfts.list) # 1
    /\ entry' = "checkoutNFTs"
    /\ IF HexThrows(nfts.list)
       THEN cpc' = "threw" /\ UNCHANGED txs
       ELSE /\ txs' = Append(txs, MultipleTx(nfts.list, totalCreditUsed))
            /\ \E ok \in BOOLEAN : cpc' = IF ok THEN "sent" ELSE "threw"
    /\ UNCHANGED <<nfts, totalCreditUsed>>
    /\ UNCHANGED walkVars
    /\ UNCHANGED backoffVars
    /\ UNCHANGED <<suspended, metadataVars, sessionVars>>

\* checkoutMetamask: always processNfts; nfts.forEach throws on null
CheckoutMetamaskNull ==
    /\ cpc = "idle"
    /\ nfts.null
    /\ entry' = "checkoutMetamask"
    /\ cpc' = "threw"
    /\ UNCHANGED <<nfts, totalCreditUsed, txs>>
    /\ UNCHANGED walkVars
    /\ UNCHANGED backoffVars
    /\ UNCHANGED <<suspended, metadataVars, sessionVars>>

CheckoutMetamask ==
    /\ cpc = "idle"
    /\ ~nfts.null
    /\ entry' = "checkoutMetamask"
    /\ IF HexThrows(nfts.list)
       THEN cpc' = "threw" /\ UNCHANGED txs
       ELSE /\ txs' = Append(txs, MultipleTx(nfts.list, totalCreditUsed))
            /\ \E ok \in BOOLEAN : cpc' = IF ok THEN "sent" ELSE "threw"
    /\ UNCHANGED <<nfts, totalCreditUsed>>
    /\ UNCHANGED walkVars
    /\ UNCHANGED backoffVars
    /\ UNCHANGED <<suspended, metadataVars, sessionVars>>

CheckoutNext ==
    \/ CheckoutNFTsNull
    \/ CheckoutNFTsSingle
    \/ CheckoutNFTsMultiple
    \/ CheckoutMetamaskNull
    \/ CheckoutMetamask

\* ------------------------------------------------------------ the walks
\* getWalletNfts, getVaultNFTs and getTotalWalletNfts walk the index and read
\* the contracts for the NFTs they visit.  Every awaited read either returns
\* or throws (CustomContract.callWithRetry throws once its retries are used
\* up; an index request can fail).

\* chain states: no NFT rented, or every k-th one; a rented NFT's expiry is
\* a non-zero timestamp of its own
LockStates(n) ==
    {[i \in 1 .. n |-> 0]}
        \cup UNION {{[i \in 1 .. n |-> IF i % k = r THEN i ELSE 0] : r \in 0 .. (k - 1)} :
                        k \in 1 .. MaxLockPeriod}

WalkIdle ==
    /\ fn = "none"
    /\ owner = FALSE
    /\ ownedNfts = 0
    /\ lockedTill = << >>
    /\ page = 1
    /\ type = "owned"
    /\ epc = "returned"
    /\ pos = 0
    /\ count = 0
    /\ deposits = << >>
    /\ rentals = << >>
    /\ calls = << >>
    /\ retryCount = 0
    /\ rentedCount = 0
    /\ ownedCount = 0
    /\ sleeps = << >>

\* the locals before a call
WalkLocals ==
    /\ fn = "none"
    /\ epc = "idle"
    /\ pos = 0
    /\ count = 0
    /\ deposits = << >>
    /\ rentals = << >>
    /\ calls = << >>
    /\ retryCount = 0
    /\ rentedCount = 0
    /\ ownedCount = 0
    /\ sleeps = << >>

PageArgs ==
    /\ owner \in BOOLEAN
    /\ ownedNfts \in 0 .. MaxItems
    /\ lockedTill \in LockStates(ownedNfts)
    /\ page \in 1 .. MaxPage
    /\ type = "owned"
    /\ WalkLocals

\* getTotalWalletNfts over an index longer than one page
CountAllArgs ==
    /\ owner \in BOOLEAN
    /\ ownedNfts \in 0 .. MaxItems
    /\ lockedTill \in LockStates(ownedNfts)
    /\ page = 1
    /\ type \in {"rented", "owned"}
    /\ WalkLocals

\* getTotalWalletNfts over a short index
CountLiveArgs ==
    /\ owner \in BOOLEAN
    /\ ownedNfts \in 0 .. MaxLiveItems
    /\ lockedTill \in LockStates(ownedNfts)
    /\ page = 1
    /\ type \in {"rented", "owned"}
    /\ WalkLocals

CountArgs ==
    /\ owner \in BOOLEAN
    /\ ownedNfts \in 0 .. MaxCountItems
    /\ lockedTill \in LockStates(ownedNfts)
    /\ page = 1
    /\ type \in {"rented", "owned"}
    /\ WalkLocals

\* mutant: the page number rounded down
PageOfFloor(c) == c \div pageSize

\* Math.ceil(count / pageSize)
PageOf(c) == (c + pageSize - 1) \div pageSize

\* mutant: the lock expiry is read without the getTokenId lookup
ReadsWithoutTokenId(f) ==
    IF f = "getVaultNFTs" THEN <<"getPrice", "getValue">>
    ELSE <<"getPrice", "getValue", "getLockedTill">>

\* mutant: the lock expiry is read before the getTokenId lookup
ReadsLockFirst(f) ==
    IF f = "getVaultNFTs" THEN <<"getPrice", "getValue">>
    ELSE <<"getPrice", "getValue", "getLockedTill", "getTokenId">>

\* the contract reads made for one NFT, in order: repackageMetadata reads
\* getPrice and getValue; the wallet walks then read getTokenId and getLockedTill
Reads(f) ==
    IF f = "getVaultNFTs" THEN <<"getPrice", "getValue">>
    ELSE <<"getPrice", "getValue", "getTokenId", "getLockedTill">>

Methods == {"getPrice", "getValue", "getTokenId", "getLockedTill"}

IndexOf(q, x) == CHOOSE i \in 1 .. Len(q) : q[i] = x

\* mutant: the catch of getTotalWalletNfts starts the next walk at once
ThrownToNextWalk(f) == IF f = "getTotalWalletNfts" THEN "fetch" ELSE "threw"

\* where a throw goes: into the catch of getTotalWalletNfts, else to the caller
Thrown(f) == IF f = "getTotalWalletNfts" THEN "catch" ELSE "threw"

\* the entries: without the wallet (address list) argument they return at once
GetWalletNftsCall ==
    /\ epc = "idle"
    /\ fn' = "getWalletNfts"
    /\ epc' = IF owner THEN "fetch" ELSE "returned"
    /\ UNCHANGED <<owner, ownedNfts, lockedTill, page, type, pos, count, deposits,
                   rentals, calls, retryCount, rentedCount, ownedCount, sleeps>>
    /\ UNCHANGED checkoutVars
    /\ UNCHANGED backoffVars
    /\ UNCHANGED <<suspended, metadataVars, sessionVars>>

GetVaultNFTsCall ==
    /\ epc = "idle"
    /\ fn' = "getVaultNFTs"
    /\ epc' = IF owner THEN "fetch" ELSE "returned"
    /\ UNCHANGED <<owner, ownedNfts, lockedTill, page, type, pos, count, deposits,
                   rentals, calls, retryCount, rentedCount, ownedCount, sleeps>>
    /\ UNCHANGED checkoutVars
    /\ UNCHANGED backoffVars
    /\ UNCHANGED <<suspended, metadataVars, sessionVars>>

GetTotalWalletNftsCall ==
    /\ epc = "idle"
    /\ fn' = "getTotalWalletNfts"
    /\ epc' = IF owner THEN "fetch" ELSE "returned"
    /\ UNCHANGED <<owner, ownedNfts, lockedTill, page, type, pos, count, deposits,
                   rentals, calls, retryCount, rentedCount, ownedCount, sleeps>>
    /\ UNCHANGED checkoutVars
    /\ UNCHANGED backoffVars
    /\ UNCHANGED <<suspended, metadataVars, sessionVars>>

\* mutant: a new walk resumes at the NFT the last one failed on
WalkFetchResume ==
    /\ epc = "fetch"
    /\ epc' = "loop"
    /\ pos' = IF pos = 0 THEN 0 ELSE pos - 1
    /\ calls' = << >>
    /\ UNCHANGED <<fn, owner, ownedNfts, lockedTill, page, type, count, deposits,
                   rentals, retryCount, rentedCount, ownedCount, sleeps>>
    /\ UNCHANGED checkoutVars
    /\ UNCHANGED backoffVars
    /\ UNCHANGED <<suspended, metadataVars, sessionVars>>

\* the index request returns: the loop starts at the first NFT
WalkFetch ==
    /\ epc = "fetch"
    /\ epc' = "loop"
    /\ pos' = 0
    /\ calls' = << >>
    /\ UNCHANGED <<fn, owner, ownedNfts, lockedTill, page, type, count, deposits,
                   rentals, retryCount, rentedCount, ownedCount, sleeps>>
    /\ UNCHANGED checkoutVars
    /\ UNCHANGED backoffVars
    /\ UNCHANGED <<suspended, metadataVars, sessionVars>>

WalkFetchThrows ==
    /\ epc = "fetch"
    /\ epc' = Thrown(fn)
    /\ UNCHANGED <<fn, owner, ownedNfts, lockedTill, page, type, pos, count, deposits,
                   rentals, calls, retryCount, rentedCount, ownedCount, sleeps>>
    /\ UNCHANGED checkoutVars
    /\ UNCHANGED backoffVars
    /\ UNCHANGED <<suspended, metadataVars, sessionVars>>

\* getWalletNfts: the head of the for loop
WalletLoop ==
    /\ fn = "getWalletNfts"
    /\ epc = "loop"
    /\ IF pos < ownedNfts
       THEN /\ pos' = pos + 1
            /\ count' = count + 1
            /\ epc' = IF PageOf(count + 1) = page THEN "getPrice" ELSE "loop"
       ELSE /\ epc' = "returned"
            /\ UNCHANGED <<pos, count>>
    /\ UNCHANGED <<fn, owner, ownedNfts, lockedTill, page, type, deposits, rentals,
                   calls, retryCount, rentedCount, ownedCount, sleeps>>
    /\ UNCHANGED checkoutVars
    /\ UNCHANGED backoffVars
    /\ UNCHANGED <<suspended, metadataVars, sessionVars>>

\* getVaultNFTs: the head of the for await loop; the length test of the body
\* runs for the NFTs of other pages too
VaultLoop ==
    /\ fn = "getVaultNFTs"
    /\ epc = "loop"
    /\ IF pos < ownedNfts
       THEN /\ pos' = pos + 1
            /\ count' = count + 1
            /\ epc' = IF PageOf(count + 1) = page THEN "getPrice"
                      ELSE IF Len(deposits) = pageSize THEN "returned" ELSE "loop"
       ELSE /\ epc' = "returned"
            /\ UNCHANGED <<pos, count>>
    /\ UNCHANGED <<fn, owner, ownedNfts, lockedTill, page, type, deposits, rentals,
                   calls, retryCount, rentedCount, ownedCount, sleeps>>
    /\ UNCHANGED checkoutVars
    /\ UNCHANGED backoffVars
    /\ UNCHANGED <<suspended, metadataVars, sessionVars>>

\* mutant: the walk stops after one page of the index
TotalLoopOnePage ==
    /\ fn = "getTotalWalletNfts"
    /\ epc = "loop"
    /\ IF pos < ownedNfts /\ pos < pageSize
       THEN /\ pos' = pos + 1
            /\ epc' = "getPrice"
       ELSE /\ epc' = "returned"
            /\ UNCHANGED pos
    /\ UNCHANGED <<fn, owner, ownedNfts, lockedTill, page, type, count, deposits, rentals,
                   calls, retryCount, rentedCount, ownedCount, sleeps>>
    /\ UNCHANGED checkoutVars
    /\ UNCHANGED backoffVars
    /\ UNCHANGED <<suspended, metadataVars, sessionVars>>

\* getTotalWalletNfts: the head of the for loop; its end leaves the while loop
TotalLoop ==
    /\ fn = "getTotalWalletNfts"
    /\ epc = "loop"
    /\ IF pos < ownedNfts
       THEN /\ pos' = pos + 1
            /\ epc' = "getPrice"
       ELSE /\ epc' = "returned"
            /\ UNCHANGED pos
    /\ UNCHANGED <<fn, owner, ownedNfts, lockedTill, page, type, count, deposits, rentals,
                   calls, retryCount, rentedCount, ownedCount, sleeps>>
    /\ UNCHANGED checkoutVars
    /\ UNCHANGED backoffVars
    /\ UNCHANGED <<suspended, metadataVars, sessionVars>>

\* mutant: the loop does not stop when the page is full
WalletItemDoneNoBreak(rentEndTime) ==
    /\ IF rentEndTime = 0
       THEN deposits' = Append(deposits, pos) /\ UNCHANGED rentals
       ELSE rentals' = Append(rentals, [nft |-> pos, end |-> rentEndTime]) /\ UNCHANGED deposits
    /\ epc' = "loop"
    /\ UNCHANGED <<rentedCount, ownedCount>>

\* mutant: the test of the expiry is inverted
WalletItemDoneInverted(rentEndTime) ==
    /\ IF rentEndTime # 0
       THEN deposits' = Append(deposits, pos) /\ UNCHANGED rentals
       ELSE rentals' = Append(rentals, [nft |-> pos, end |-> rentEndTime]) /\ UNCHANGED deposits
    /\ epc' = IF Len(deposits') + Len(rentals') = pageSize THEN "returned" ELSE "loop"
    /\ UNCHANGED <<rentedCount, ownedCount>>

\* getWalletNfts after getLockedTill: classify, push, stop when the page is full
WalletItemDone(rentEndTime) ==
    /\ IF rentEndTime = 0
       THEN deposits' = Append(deposits, pos) /\ UNCHANGED rentals
       ELSE rentals' = Append(rentals, [nft |-> pos, end |-> rentEndTime]) /\ UNCHANGED deposits
    /\ epc' = IF Len(deposits') + Len(rentals') = pageSize THEN "returned" ELSE "loop"
    /\ UNCHANGED <<rentedCount, ownedCount>>

\* getVaultNFTs after repackageMetadata: push, stop when the page is full
VaultItemDone ==
    /\ deposits' = Append(deposits, pos)
    /\ epc' = IF Len(deposits') = pageSize THEN "returned" ELSE "loop"
    /\ UNCHANGED <<rentals, rentedCount, ownedCount>>

\* getTotalWalletNfts after getLockedTill: count the NFT
TotalItemDone(rentEndTime) ==
    /\ IF rentEndTime = 0
       THEN ownedCount' = ownedCount + 1 /\ UNCHANGED rentedCount
       ELSE rentedCount' = rentedCount + 1 /\ UNCHANGED ownedCount
    /\ epc' = "loop"
    /\ UNCHANGED <<deposits, rentals>>

\* an awaited contract read for the NFT at pos returns
CallReturns ==
    /\ epc \in Methods
    /\ calls' = Append(calls, <<epc, pos>>)
    /\ LET k == IndexOf(Reads(fn), epc)
       IN  IF k < Len(Reads(fn))
           THEN /\ epc' = Reads(fn)[k + 1]
                /\ UNCHANGED <<deposits, rentals, rentedCount, ownedCount>>
           ELSE IF fn = "getWalletNfts" THEN WalletItemDone(lockedTill[pos])
           ELSE IF fn = "getVaultNFTs" THEN VaultItemDone
           ELSE TotalItemDone(lockedTill[pos])
    /\ UNCHANGED <<fn, owner, ownedNfts, lockedTill, page, type, pos, count,
                   retryCount, sleeps>>
    /\ UNCHANGED checkoutVars
    /\ UNCHANGED backoffVars
    /\ UNCHANGED <<suspended, metadataVars, sessionVars>>

\* an awaited contract read throws
CallThrows ==
    /\ epc \in Methods
    /\ epc' = Thrown(fn)
    /\ UNCHANGED <<fn, owner, ownedNfts, lockedTill, page, type, pos, count, deposits,
                   rentals, calls, retryCount, rentedCount, ownedCount, sleeps>>
    /\ UNCHANGED checkoutVars
    /\ UNCHANGED backoffVars
    /\ UNCHANGED <<suspended, metadataVars, sessionVars>>

\* mutant: the bound is tested before the sleep, the last failure is not slept on
TotalSleepAfterCheck ==
    /\ epc = "catch"
    /\ sleeps' = IF retryCount + 1 >= maxWalks THEN sleeps
                 ELSE Append(sleeps, initialDelay * Pow(2, retryCount))
    /\ epc' = "slept"
    /\ UNCHANGED <<fn, owner, ownedNfts, lockedTill, page, type, pos, count, deposits,
                   rentals, calls, retryCount, rentedCount, ownedCount>>
    /\ UNCHANGED checkoutVars
    /\ UNCHANGED backoffVars
    /\ UNCHANGED <<suspended, metadataVars, sessionVars>>

\* mutant: the same delay after every failed walk
TotalSleepConstant ==
    /\ epc = "catch"
    /\ sleeps' = Append(sleeps, initialDelay)
    /\ epc' = "slept"
    /\ UNCHANGED <<fn, owner, ownedNfts, lockedTill, page, type, pos, count, deposits,
                   rentals, calls, retryCount, rentedCount, ownedCount>>
    /\ UNCHANGED checkoutVars
    /\ UNCHANGED backoffVars
    /\ UNCHANGED <<suspended, metadataVars, sessionVars>>

\* getTotalWalletNfts, catch: sleep initialDelay * 2^retryCount
TotalSleep ==
    /\ epc = "catch"
    /\ sleeps' = Append(sleeps, initialDelay * Pow(2, retryCount))
    /\ epc' = "slept"
    /\ UNCHANGED <<fn, owner, ownedNfts, lockedTill, page, type, pos, count, deposits,
                   rentals, calls, retryCount, rentedCount, ownedCount>>
    /\ UNCHANGED checkoutVars
    /\ UNCHANGED backoffVars
    /\ UNCHANGED <<suspended, metadataVars, sessionVars>>

\* getTotalWalletNfts, catch after the sleep: count the retry, give up at
\* maxWalks, else go round the while loop (rentedCount and ownedCount are
\* declared outside the loop and keep their values)
TotalRetry ==
    /\ epc = "slept"
    /\ retryCount' = retryCount + 1
    /\ epc' = IF retryCount + 1 >= maxWalks THEN "threw" ELSE "fetch"
    /\ UNCHANGED <<fn, owner, ownedNfts, lockedTill, page, type, pos, count, deposits,
                   rentals, calls, rentedCount, ownedCount, sleeps>>
    /\ UNCHANGED checkoutVars
    /\ UNCHANGED backoffVars
    /\ UNCHANGED <<suspended, metadataVars, sessionVars>>

\* the value getTotalWalletNfts returns
TotalResult ==
    IF ~owner THEN 0 ELSE IF type = "rented" THEN rentedCount ELSE ownedCount

\* the value getWalletNfts returns: without the wallet argument the array
\* [[], []], else the object { rentals, deposits }
WalletNftsResult ==
    IF ~owner THEN [kind |-> "array", items |-> <<<< >>, << >>>>]
    ELSE [kind |-> "object", rentals |-> rentals, deposits |-> deposits]

PageNext ==
    \/ GetWalletNftsCall
    \/ GetVaultNFTsCall
    \/ WalkFetch
    \/ WalkFetchThrows
    \/ WalletLoop
    \/ VaultLoop
    \/ CallReturns
    \/ CallThrows

CountNext ==
    \/ GetTotalWalletNftsCall
    \/ WalkFetch
    \/ WalkFetchThrows
    \/ TotalLoop
    \/ CallReturns
    \/ CallThrows
    \/ TotalSleep
    \/ TotalRetry

\* getTotalWalletNfts when no awaited call throws
CountAllNext ==
    \/ GetTotalWalletNftsCall
    \/ WalkFetch
    \/ TotalLoop
    \/ CallReturns

\* the three walks over one index
WalkNext ==
    \/ GetWalletNftsCall
    \/ GetVaultNFTsCall
    \/ GetTotalWalletNftsCall
    \/ WalkFetch
    \/ WalkFetchThrows
    \/ WalletLoop
    \/ VaultLoop
    \/ TotalLoop
    \/ CallReturns
    \/ CallThrows
    \/ TotalSleep
    \/ TotalRetry

\* ------------------------------------------------------ exponentialBackoff
\* fetchFn resolves to a BigNumber of wei or to a falsy value, or rejects.
\* Math.random() is r / RandomSteps; a delay is kept as the fraction num / den.

Falsy == [falsy |-> TRUE, wei |-> 0]
BigNumber(n) == [falsy |-> FALSE, wei |-> n]
FetchResults ==
    {Falsy} \cup {BigNumber(n) : n \in (0 .. MaxAmount) \cup {Unit + 1}
                                         \cup {t * (Unit \div 10) : t \in 1 .. MaxTenths}}

Null == [null |-> TRUE, str |-> FormatEther(0)]
String(s) == [null |-> FALSE, str |-> s]

BackoffIdle ==
    /\ bpc = "returned"
    /\ attempt = 0
    /\ result = Falsy
    /\ delays = << >>
    /\ fetched = 0
    /\ returnValue = Null

BackoffArgs ==
    /\ bpc = "idle"
    /\ attempt = 0
    /\ result = Falsy
    /\ delays = << >>
    /\ fetched = 0
    /\ returnValue = Null

\* baseDelay * (1 + Math.random())
Delay(r) == [num |-> baseDelay * (RandomSteps + r), den |-> RandomSteps]

\* mutant: the loop starts one attempt early
ExponentialBackoffCallEarly ==
    /\ bpc = "idle"
    /\ attempt' = 0 - 1
    /\ bpc' = "call"
    /\ fetched' = fetched + 1
    /\ UNCHANGED <<result, delays, returnValue>>
    /\ UNCHANGED checkoutVars
    /\ UNCHANGED walkVars
    /\ UNCHANGED <<suspended, metadataVars, sessionVars>>

\* the call: i = 0, the loop test holds, fetchFn is called
ExponentialBackoffCall ==
    /\ bpc = "idle"
    /\ attempt' = 0
    /\ bpc' = "call"
    /\ fetched' = fetched + 1
    /\ UNCHANGED <<result, delays, returnValue>>
    /\ UNCHANGED checkoutVars
    /\ UNCHANGED walkVars
    /\ UNCHANGED <<suspended, metadataVars, sessionVars>>

\* mutant: a falsy result is not replaced by "0"
FetchReturnsNoDefault(v) ==
    /\ bpc = "call"
    /\ result' = v
    /\ returnValue' = IF v.falsy THEN Null ELSE String(FormatEther(v.wei))
    /\ bpc' = "returned"
    /\ UNCHANGED <<attempt, delays, fetched>>
    /\ UNCHANGED checkoutVars
    /\ UNCHANGED walkVars
    /\ UNCHANGED <<suspended, metadataVars, sessionVars>>

\* fetchFn resolves: return formatEther(result || "0")
FetchReturns(v) ==
    /\ bpc = "call"
    /\ result' = v
    /\ returnValue' = String(FormatEther(IF v.falsy THEN 0 ELSE v.wei))
    /\ bpc' = "returned"
    /\ UNCHANGED <<attempt, delays, fetched>>
    /\ UNCHANGED checkoutVars
    /\ UNCHANGED walkVars
    /\ UNCHANGED <<suspended, metadataVars, sessionVars>>

\* mutant: when the retries are used up the default string is returned
FetchThrowsDefault ==
    /\ bpc = "call"
    /\ IF attempt < maxRetries
       THEN /\ \E r \in 0 .. (RandomSteps - 1) : delays' = Append(delays, Delay(r))
            /\ bpc' = "wait"
            /\ UNCHANGED <<attempt, returnValue>>
       ELSE /\ attempt' = attempt + 1
            /\ returnValue' = String(FormatEther(0))
            /\ bpc' = "returned"
            /\ UNCHANGED delays
    /\ UNCHANGED <<result, fetched>>
    /\ UNCHANGED checkoutVars
    /\ UNCHANGED walkVars
    /\ UNCHANGED <<suspended, metadataVars, sessionVars>>

\* fetchFn rejects (or formatEther throws): the catch. With retries left a
\* timer is set; else the error is logged, i++ ends the loop, return null
FetchThrows ==
    /\ bpc = "call"
    /\ IF attempt < maxRetries
       THEN /\ \E r \in 0 .. (RandomSteps - 1) : delays' = Append(delays, Delay(r))
            /\ bpc' = "wait"
            /\ UNCHANGED <<attempt, returnValue>>
       ELSE /\ attempt' = attempt + 1
            /\ returnValue' = Null
            /\ bpc' = "returned"
            /\ UNCHANGED delays
    /\ UNCHANGED <<result, fetched>>
    /\ UNCHANGED checkoutVars
    /\ UNCHANGED walkVars
    /\ UNCHANGED <<suspended, metadataVars, sessionVars>>

\* the timer fires: i++, and fetchFn is called again if the loop test holds
TimerFires ==
    /\ bpc = "wait"
    /\ attempt' = attempt + 1
    /\ IF attempt + 1 <= maxRetries
       THEN /\ bpc' = "call"
            /\ fetched' = fetched + 1
            /\ UNCHANGED returnValue
       ELSE /\ bpc' = "returned"
            /\ returnValue' = Null
            /\ UNCHANGED fetched
    /\ UNCHANGED <<result, delays>>
    /\ UNCHANGED checkoutVars
    /\ UNCHANGED walkVars
    /\ UNCHANGED <<suspended, metadataVars, sessionVars>>

BackoffNext ==
    \/ ExponentialBackoffCall
    \/ \E v \in FetchResults : FetchReturns(v)
    \/ FetchThrows
    \/ TimerFires

\* ------------------------------------------------- two interleaved walks
\* Each call has its own arguments and locals (its frame).  While a call
\* waits at an await (or before it starts, or after it ended) the other
\* one runs: the running frame is the walk variables, the other is suspended.

Frame ==
    [fn |-> fn, owner |-> owner, ownedNfts |-> ownedNfts, lockedTill |-> lockedTill,
     page |-> page, type |-> type, epc |-> epc, pos |-> pos, count |-> count,
     deposits |-> deposits, rentals |-> rentals, calls |-> calls,
     retryCount |-> retryCount, rentedCount |-> rentedCount,
     ownedCount |-> ownedCount, sleeps |-> sleeps]

\* the frame of a call not yet made, for the wallet of n NFTs, every other
\* one rented
NewFrame(n) ==
    [fn |-> "none", owner |-> TRUE, ownedNfts |-> n,
     lockedTill |-> [i \in 1 .. n |-> IF i % 2 = 1 THEN i ELSE 0],
     page |-> 1, type |-> "owned", epc |-> "idle", pos |-> 0, count |-> 0,
     deposits |-> << >>, rentals |-> << >>, calls |-> << >>,
     retryCount |-> 0, rentedCount |-> 0, ownedCount |-> 0, sleeps |-> << >>]

\* no second call
NoFrame == [NewFrame(0) EXCEPT !.epc = "returned"]

\* the running frame is f
Running(f) ==
    /\ fn = f.fn
    /\ owner = f.owner
    /\ ownedNfts = f.ownedNfts
    /\ lockedTill = f.lockedTill
    /\ page = f.page
    /\ type = f.type
    /\ epc = f.epc
    /\ pos = f.pos
    /\ count = f.count
    /\ deposits = f.deposits
    /\ rentals = f.rentals
    /\ calls = f.calls
    /\ retryCount = f.retryCount
    /\ rentedCount = f.rentedCount
    /\ ownedCount = f.ownedCount
    /\ sleeps = f.sleeps

\* the two calls are for different wallets, of MaxConcItems NFTs and of one less
ConcArgs ==
    /\ Running(NewFrame(MaxConcItems))
    /\ suspended = NewFrame(MaxConcItems - 1)

\* mutant: the counters are module variables, shared by the two calls
SwitchSharedCounters ==
    /\ epc # "loop"
    /\ suspended.epc \notin {"returned", "threw"}
    /\ fn' = suspended.fn
    /\ owner' = suspended.owner
    /\ ownedNfts' = suspended.ownedNfts
    /\ lockedTill' = suspended.lockedTill
    /\ page' = suspended.page
    /\ type' = suspended.type
    /\ epc' = suspended.epc
    /\ pos' = suspended.pos
    /\ deposits' = suspended.deposits
    /\ rentals' = suspended.rentals
    /\ calls' = suspended.calls
    /\ retryCount' = suspended.retryCount
    /\ sleeps' = suspended.sleeps
    /\ UNCHANGED <<count, rentedCount, ownedCount>>
    /\ suspended' = Frame
    /\ UNCHANGED checkoutVars
    /\ UNCHANGED backoffVars
    /\ UNCHANGED <<metadataVars, sessionVars>>

\* the running call waits at an await (or has not started, or has ended)
\* and the other call, not yet ended, runs on
Switch ==
    /\ epc # "loop"
    /\ suspended.epc \notin {"returned", "threw"}
    /\ fn' = suspended.fn
    /\ owner' = suspended.owner
    /\ ownedNfts' = suspended.ownedNfts
    /\ lockedTill' = suspended.lockedTill
    /\ page' = suspended.page
    /\ type' = suspended.type
    /\ epc' = suspended.epc
    /\ pos' = suspended.pos
    /\ count' = suspended.count
    /\ deposits' = suspended.deposits
    /\ rentals' = suspended.rentals
    /\ calls' = suspended.calls
    /\ retryCount' = suspended.retryCount
    /\ rentedCount' = suspended.rentedCount
    /\ ownedCount' = suspended.ownedCount
    /\ sleeps' = suspended.sleeps
    /\ suspended' = Frame
    /\ UNCHANGED checkoutVars
    /\ UNCHANGED backoffVars
    /\ UNCHANGED <<metadataVars, sessionVars>>

ConcNext ==
    \/ GetWalletNftsCall
    \/ GetVaultNFTsCall
    \/ GetTotalWalletNftsCall
    \/ WalkFetch
    \/ WalkFetchThrows
    \/ WalletLoop
    \/ VaultLoop
    \/ TotalLoop
    \/ CallReturns
    \/ CallThrows
    \/ TotalSleep
    \/ TotalRetry
    \/ Switch

\* ------------------------------------------- repackageMetadata: the image
\* A string is the sequence of its characters; no image is the empty one.

ipfsPrefix == <<"i", "p", "f", "s", ":", "/", "/">>
ipfsGateway ==
    <<"h", "t", "t", "p", "s", ":", "/", "/", "i", "p", "f", "s", ".", "i", "o", "/",
      "i", "p", "f", "s", "/">>

\* String.prototype.slice(a, b) and slice(a)
Slice(str, a, b) == SubSeq(str, a + 1, Min(b, Len(str)))
SliceFrom(str, a) == SubSeq(str, a + 1, Len(str))

Tails == UNION {[1 .. n -> {"Q", "m", "/"}] : n \in 0 .. MaxRest} \cup {ipfsPrefix}
Heads ==
    {<< >>, ipfsPrefix, Slice(ipfsPrefix, 0, Len(ipfsPrefix) - 1), <<"x">> \o ipfsPrefix,
     <<"I", "P", "F", "S", ":", "/", "/">>, ipfsGateway, <<"h", "t", "t", "p", ":", "/", "/">>}

MetadataIdle ==
    /\ uri = << >>
    /\ image = << >>
    /\ rpc = "returned"

MetadataArgs ==
    /\ uri \in {h \o t : h \in Heads, t \in Tails}
    /\ image = uri
    /\ rpc = "idle"

\* mutant: the prefix is not cut off
NormalizeImageKeepPrefix ==
    /\ rpc \in {"idle", "once"}
    /\ image' = IF /\ image # << >>
                   /\ Len(image) >= Len(ipfsPrefix)
                   /\ Slice(image, 0, Len(ipfsPrefix)) = ipfsPrefix
                THEN ipfsGateway \o image
                ELSE image
    /\ rpc' = IF rpc = "idle" THEN "once" ELSE "returned"
    /\ UNCHANGED uri
    /\ UNCHANGED <<checkoutVars, walkVars, backoffVars, suspended, sessionVars>>

\* the rewrite of metaData.image; it is applied a second time to its own
\* result when the metadata is repackaged again
NormalizeImage ==
    /\ rpc \in {"idle", "once"}
    /\ image' = IF /\ image # << >>
                   /\ Len(image) >= Len(ipfsPrefix)
                   /\ Slice(image, 0, Len(ipfsPrefix)) = ipfsPrefix
                THEN ipfsGateway \o SliceFrom(image, Len(ipfsPrefix))
                ELSE image
    /\ rpc' = IF rpc = "idle" THEN "once" ELSE "returned"
    /\ UNCHANGED uri
    /\ UNCHANGED <<checkoutVars, walkVars, backoffVars, suspended, sessionVars>>

\* ------------------------------------------- accountsChangedHandler
\* Accounts are 1 .. MaxAccounts and 0 is null.  The user and the proxy wallet
\* that getUser returns for an account are named by the account.  A call of
\* the handler runs up to its next await in one step; calls waiting at an
\* await resume in any order.

Accounts == 1 .. MaxAccounts

\* the accounts arrays an event carries
AccountLists ==
    {<< >>} \cup {<<a>> : a \in Accounts}
            \cup {p \in Accounts \X Accounts : p[1] # p[2]}

\* the item "accounts" of the local storage
NoItem == [present |-> FALSE, list |-> << >>]
Item(list) == [present |-> TRUE, list |-> list]

\* nobody logged in, and a as logged in by the handler
LoggedOut ==
    [publicKey |-> 0, user |-> 0, proxyWallet |-> 0, tokens |-> 0,
     tokensLoading |-> FALSE, changeChain |-> FALSE, accounts |-> NoItem]
LoggedIn(a) ==
    [publicKey |-> a, user |-> a, proxyWallet |-> a, tokens |-> a,
     tokensLoading |-> FALSE, changeChain |-> FALSE, accounts |-> Item(<<a>>)]

SessionIdle ==
    /\ publicKey = 0
    /\ session = LoggedOut
    /\ handlers = << >>

\* initializeProvider registers the handler with the publicKey of the moment
SessionArgs ==
    /\ publicKey \in {0} \cup Accounts
    /\ session = IF publicKey = 0 THEN LoggedOut ELSE LoggedIn(publicKey)
    /\ handlers = << >>

\* lines 299-305: setPublicKey(null) ... removeItem("accounts")
Logout(ses) ==
    [ses EXCEPT !.publicKey = 0, !.user = 0, !.proxyWallet = 0, !.tokens = 0,
                !.accounts = NoItem]

\* lines 248-255: the reset before the user is fetched
Reset(ses) == [Logout(ses) EXCEPT !.tokensLoading = TRUE]

\* lines 246-305 up to the await of getUser, for a call with the accounts accs
Login(ses, accs) ==
    IF accs # << >> /\ accs[1] # publicKey THEN Reset(ses) ELSE Logout(ses)
LoginPc(accs) ==
    IF accs # << >> /\ accs[1] # publicKey THEN "getUser" ELSE "done"

\* an accountsChanged event: the handler starts and runs to its first await
AccountsChanged ==
    /\ Len(handlers) < MaxEvents
    /\ \E accs \in AccountLists :
          IF accs # << >>
          THEN /\ handlers' = Append(handlers,
                                    [accounts |-> accs, hpc |-> "getChainId", proxyWallet |-> 0])
               /\ UNCHANGED session
          ELSE /\ handlers' = Append(handlers,
                                    [accounts |-> accs, hpc |-> "done", proxyWallet |-> 0])
               /\ session' = Logout(session)
    /\ UNCHANGED publicKey
    /\ UNCHANGED <<checkoutVars, walkVars, backoffVars, suspended, metadataVars>>

\* getChainId settles: on another chain the accounts are stored and
\* chainChanged is emitted; on the right chain the login goes on
ChainIdReturns ==
    /\ \E i \in 1 .. Len(handlers) : \E correct \in BOOLEAN :
          /\ handlers[i].hpc = "getChainId"
          /\ IF correct
             THEN /\ session' = Login(session, handlers[i].accounts)
                  /\ handlers' = [handlers EXCEPT ![i].hpc = LoginPc(handlers[i].accounts)]
             ELSE /\ session' = [session EXCEPT !.accounts = Item(handlers[i].accounts),
                                               !.changeChain = TRUE]
                  /\ handlers' = [handlers EXCEPT ![i].hpc = "done"]
    /\ UNCHANGED publicKey
    /\ UNCHANGED <<checkoutVars, walkVars, backoffVars, suspended, metadataVars>>

\* getUser settles, with or without a proxy wallet: the tokens of that
\* wallet are set
GetUserReturns ==
    /\ \E i \in 1 .. Len(handlers) :
          /\ handlers[i].hpc = "getUser"
          /\ \E pw \in {0, handlers[i].accounts[1]} :
                /\ session' = [session EXCEPT !.tokens = pw]
                /\ handlers' = [handlers EXCEPT ![i].hpc = "getRentalAmountInfo",
                                                ![i].proxyWallet = pw]
    /\ UNCHANGED publicKey
    /\ UNCHANGED <<checkoutVars, walkVars, backoffVars, suspended, metadataVars>>

\* getRentalAmountInfo settles (it catches its errors): lines 286-299,
\* the account, its wallet and user are published and the accounts stored
RentalAmountInfoReturns ==
    /\ \E i \in 1 .. Len(handlers) :
          /\ handlers[i].hpc = "getRentalAmountInfo"
          /\ session' = [session EXCEPT
                            !.publicKey = handlers[i].accounts[1],
                            !.proxyWallet = handlers[i].proxyWallet,
                            !.user = handlers[i].accounts[1],
                            !.accounts = Item(handlers[i].accounts),
                            !.tokensLoading =
                                IF handlers[i].proxyWallet # 0 THEN @ ELSE FALSE]
          /\ handlers' = [handlers EXCEPT ![i].hpc =
                              IF handlers[i].proxyWallet # 0 THEN "getAllTokens" ELSE "done"]
    /\ UNCHANGED publicKey
    /\ UNCHANGED <<checkoutVars, walkVars, backoffVars, suspended, metadataVars>>

\* getAllTokens settles: it sets the tokens of the wallet, then the handler's
\* then-callback ends the loading
AllTokensReturns ==
    /\ \E i \in 1 .. Len(handlers) :
          /\ handlers[i].hpc = "getAllTokens"
          /\ session' = [session EXCEPT !.tokens = handlers[i].proxyWallet,
                                        !.tokensLoading = FALSE]
          /\ handlers' = [handlers EXCEPT ![i].hpc = "done"]
    /\ UNCHANGED publicKey
    /\ UNCHANGED <<checkoutVars, walkVars, backoffVars, suspended, metadataVars>>

\* an awaited request is rejected: the handler ends where it is
AwaitThrows ==
    /\ \E i \in 1 .. Len(handlers) :
          /\ handlers[i].hpc \in {"getChainId", "getUser", "getAllTokens"}
          /\ handlers' = [handlers EXCEPT ![i].hpc = "threw"]
    /\ UNCHANGED <<publicKey, session>>
    /\ UNCHANGED <<checkoutVars, walkVars, backoffVars, suspended, metadataVars>>

SessionNext ==
    \/ AccountsChanged
    \/ ChainIdReturns
    \/ GetUserReturns
    \/ RentalAmountInfoReturns
    \/ AllTokensReturns
    \/ AwaitThrows

\* ------------------------------------------------------- specifications
\* no second walk, no metadata being repackaged
Solo == suspended = NoFrame /\ MetadataIdle /\ SessionIdle

CheckoutInit == CheckoutArgs /\ WalkIdle /\ BackoffIdle /\ Solo
PageInit == CheckoutIdle /\ PageArgs /\ BackoffIdle /\ Solo
CountInit == CheckoutIdle /\ CountArgs /\ BackoffIdle /\ Solo
BackoffInit == CheckoutIdle /\ WalkIdle /\ BackoffArgs /\ Solo
AllocateInit == SignedArgs /\ WalkIdle /\ BackoffIdle /\ Solo

SpecCheckout == CheckoutInit /\ [][CheckoutNext]_vars
SpecPage == PageInit /\ [][PageNext]_vars
SpecCount == CountInit /\ [][CountNext]_vars
SpecWalk == CountInit /\ [][WalkNext]_vars
\* every awaited index request, contract read and sleep settles, and the
\* code between two awaits runs
CountLiveInit == CheckoutIdle /\ CountLiveArgs /\ BackoffIdle /\ Solo
SpecCountLive == CountLiveInit /\ [][CountNext]_vars /\ WF_vars(CountNext)
CountAllInit == CheckoutIdle /\ CountAllArgs /\ BackoffIdle /\ Solo
SpecCountAll == CountAllInit /\ [][CountAllNext]_vars
SpecBackoff == BackoffInit /\ [][BackoffNext]_vars
SpecAllocate == AllocateInit /\ [][CheckoutNext]_vars
ConcInit == CheckoutIdle /\ ConcArgs /\ BackoffIdle /\ MetadataIdle /\ SessionIdle
SpecConcurrent == ConcInit /\ [][ConcNext]_vars
MetadataInit ==
    CheckoutIdle /\ WalkIdle /\ BackoffIdle /\ suspended = NoFrame /\ MetadataArgs /\ SessionIdle
SpecMetadata == MetadataInit /\ [][NormalizeImage]_vars
SessionInit ==
    CheckoutIdle /\ WalkIdle /\ BackoffIdle /\ suspended = NoFrame /\ MetadataIdle /\ SessionArgs
SpecSession == SessionInit /\ [][SessionNext]_vars

\* ============================================================ properties
\* helpers of the properties

\* the number a hex string denotes
RECURSIVE HexValue(_)
HexValue(h) == IF h = << >> THEN 0 ELSE 16 * HexValue(SubSeq(h, 1, Len(h) - 1)) + h[Len(h)]

RECURSIVE SumSeq(_)
SumSeq(q) == IF q = << >> THEN 0 ELSE Head(q) + SumSeq(Tail(q))

\* fee of the i-th selected NFT and the available credit, in wei
FeeWei(i) == ParseEther(ToFixed(nfts.list[i].fee))
CreditWei == ParseEther(ToFixed(totalCreditUsed))
\* the fee eligible for credit: zero for a fee below one wei
EligibleWei(i) == IF NumLess(nfts.list[i].fee, OneWeiLiteral) THEN 0 ELSE FeeWei(i)
EligibleBefore(i) == SumSeq([j \in 1 .. (i - 1) |-> EligibleWei(j)])
EligibleTotal == EligibleBefore(Len(nfts.list) + 1)

\* the transactions built by processNfts
Allocations == {k \in 1 .. Len(txs) : txs[k].method = "withdrawMultiple"}

\* C2: the credit consumed over all NFTs never exceeds the available credit
C2_CreditNeverOverConsumed ==
    \A k \in Allocations : SumSeq(txs[k].creditUsed) <= CreditWei

\* C3: the allocation is greedy in caller order:
\* creditUsed[i] = min(fee[i], max(0, credit - (fee[1] + ... + fee[i-1])))
C3_GreedyInCallerOrder ==
    \A k \in Allocations : \A i \in 1 .. Len(nfts.list) :
        txs[k].creditUsed[i] = Min(EligibleWei(i), Max(0, CreditWei - EligibleBefore(i)))

\* C4: with credit >= the sum of the fees every NFT gets its full fee as
\* credit and the credit left is credit - sum(fees)
C4_FullCreditCoversAll ==
    \A k \in Allocations :
        CreditWei >= EligibleTotal =>
            /\ \A i \in 1 .. Len(nfts.list) : txs[k].creditUsed[i] = EligibleWei(i)
            /\ ParseEther(ToFixed(txs[k].left)) = CreditWei - EligibleTotal

\* C5 as stated: fee[i] = values[i] + creditUsed[i] for every i
C5_FeeIsValuePlusCredit ==
    \A k \in Allocations : \A i \in 1 .. Len(nfts.list) :
        FeeWei(i) = HexValue(txs[k].values[i]) + txs[k].creditUsed[i]

\* C5 amended: fee[i] = values[i] + creditUsed[i] exactly at the indices
\* that consume no credit, and no index consumes more credit than its fee
C5_FeeIsValuePlusCreditIffNoCredit ==
    \A k \in Allocations : \A i \in 1 .. Len(nfts.list) :
        /\ (FeeWei(i) = HexValue(txs[k].values[i]) + txs[k].creditUsed[i])
               <=> (txs[k].creditUsed[i] = 0)
        /\ txs[k].creditUsed[i] <= FeeWei(i)

C5_Witness ==
    \E k \in Allocations : \E i, j \in 1 .. Len(nfts.list) :
        /\ txs[k].creditUsed[i] > 0
        /\ txs[k].creditUsed[j] = 0
        /\ FeeWei(j) > 0

\* C6: values[i] is the full fee of the i-th NFT whatever the credit
C6_ValueIsFullFee ==
    \A k \in Allocations :
        /\ Len(txs[k].values) = Len(nfts.list)
        /\ \A i \in 1 .. Len(nfts.list) : HexValue(txs[k].values[i]) = FeeWei(i)

C6_Witness ==
    \E k \in Allocations : \E i \in 1 .. Len(nfts.list) :
        /\ txs[k].creditUsed[i] > 0
        /\ txs[k].creditUsed[i] = FeeWei(i)
        /\ HexValue(txs[k].values[i]) = FeeWei(i)

\* C7: totalFee is the sum of the fees, whatever the credit
C7_TotalFeeIsSumOfFees ==
    \A k \in Allocations :
        HexValue(txs[k].value) = SumSeq([i \in 1 .. Len(nfts.list) |-> FeeWei(i)])

C7_Witness ==
    \E k \in Allocations :
        /\ Len(nfts.list) = MaxNfts
        /\ \A i \in 1 .. Len(nfts.list) : FeeWei(i) > 0
        /\ SumSeq(txs[k].creditUsed) > 0
        /\ HexValue(txs[k].value) > FeeWei(1) + FeeWei(2)

\* does the JS number x equal the integer n
NumberIsInt(x, n) ==
    IF x.m = 0 THEN n = 0
    ELSE IF x.e >= 0 THEN x.m * Pow(2, x.e) = n
    ELSE x.m = n * Pow(2, 0 - x.e)

\* C8: for one NFT the value and the credit argument of withdraw are those
\* processNfts gives for the same one-element selection and credit
C8_FastPathIsGeneral ==
    \A k \in 1 .. Len(txs) :
        txs[k].method = "withdraw" =>
            LET r == processNfts(nfts.list, totalCreditUsed)
            IN  /\ txs[k].value = r.totalFee
                /\ NumberIsInt(txs[k].creditUsed[1], r.creditUsed[1])

\* ---------------------------------------------------------------- walks
\* the count a walk without any failure returns
FailureFreeCount ==
    Cardinality({i \in 1 .. ownedNfts : (lockedTill[i] # 0) <=> (type = "rented")})

\* C1: when walks failed and a later walk completes, getTotalWalletNfts
\* returns the count of one failure-free walk over the index
C1_FailedWalksCountNothing ==
    (fn = "getTotalWalletNfts" /\ epc = "returned" /\ owner /\ retryCount >= 1)
        => TotalResult = FailureFreeCount

\* the page walk has returned its lists
PageReturned == fn \in {"getWalletNfts", "getVaultNFTs"} /\ epc = "returned" /\ owner

\* the NFTs in the lists, and the positions of the requested page
Returned ==
    {deposits[k] : k \in 1 .. Len(deposits)} \cup {rentals[k].nft : k \in 1 .. Len(rentals)}
Window ==
    {i \in 1 .. ownedNfts : (page - 1) * pageSize + 1 <= i /\ i <= Min(page * pageSize, ownedNfts)}

\* C9: the lists never hold more than pageSize NFTs, and a returned page
\* holds exactly the NFTs at positions (page-1)*pageSize+1 .. min(page*pageSize, N),
\* each once
C9_PageWindow ==
    /\ Len(deposits) + Len(rentals) <= pageSize
    /\ PageReturned =>
          /\ Returned = Window
          /\ Len(deposits) + Len(rentals) = Cardinality(Window)

C9_Witness ==
    /\ PageReturned
    /\ fn = "getWalletNfts"
    /\ ownedNfts = 2 * pageSize + 1
    /\ page = 2
    /\ Returned = (pageSize + 1) .. (2 * pageSize)
    /\ rentals # << >>
    /\ deposits # << >>

\* how often the read m returned for the NFT i, and where in the order
CallCount(m, i) == Cardinality({k \in 1 .. Len(calls) : calls[k] = <<m, i>>})
CallAt(m, i) == CHOOSE k \in 1 .. Len(calls) : calls[k] = <<m, i>>

PageFull == Len(deposits) + Len(rentals) = pageSize

\* C11: no NFT beyond position page*pageSize is taken from the index, and
\* once the output page is full no further NFT is taken and no read is made
C11_EarlyStop ==
    [][/\ pos' <= page * pageSize
       /\ PageFull => (pos' = pos /\ calls' = calls /\ epc' = epc)]_vars

C11_Witness ==
    /\ PageReturned
    /\ PageFull
    /\ pos = page * pageSize
    /\ pos < ownedNfts
    /\ page > 1

\* C12: a listed NFT is in rentals, with end the expiry read for it, iff
\* that expiry is not zero, else in deposits; no NFT is in both lists or
\* twice in one, and each list is in index order
C12_Classification ==
    fn = "getWalletNfts" =>
        /\ \A k \in 1 .. Len(rentals) :
              /\ lockedTill[rentals[k].nft] # 0
              /\ rentals[k].end = lockedTill[rentals[k].nft]
              /\ k > 1 => rentals[k - 1].nft < rentals[k].nft
        /\ \A k \in 1 .. Len(deposits) :
              /\ lockedTill[deposits[k]] = 0
              /\ k > 1 => deposits[k - 1] < deposits[k]
        /\ \A i \in 1 .. pos :
              (CallCount("getLockedTill", i) = 1) =>
                  IF lockedTill[i] # 0
                  THEN \E k \in 1 .. Len(rentals) : rentals[k].nft = i
                  ELSE \E k \in 1 .. Len(deposits) : deposits[k] = i

C12_Witness ==
    /\ PageReturned
    /\ fn = "getWalletNfts"
    /\ Len(rentals) >= 2
    /\ Len(deposits) >= 2
    /\ Len(rentals) # Len(deposits)

\* the two annotation lookups of the wallet walks
Annotation == {"getTokenId", "getLockedTill"}

\* C13: in getWalletNfts and getTotalWalletNfts the annotation lookups are
\* sequential in index order: a read completes only as the one awaited;
\* getLockedTill is issued in the step that completes getTokenId of the
\* same NFT; getTokenId is issued with no annotation lookup awaited and
\* every logged one belonging to an earlier NFT; the walk moves to another
\* NFT only with no lookup awaited
C13_SequentialAnnotation ==
    [][fn' \in {"getWalletNfts", "getTotalWalletNfts"} =>
          /\ (calls' # calls /\ calls' # << >>) =>
                 (epc \in Methods /\ calls' = Append(calls, <<epc, pos>>))
          /\ (epc' = "getLockedTill" /\ epc # "getLockedTill") =>
                 /\ epc = "getTokenId"
                 /\ pos' = pos
                 /\ calls' = Append(calls, <<"getTokenId", pos>>)
          /\ (epc' = "getTokenId" /\ epc # "getTokenId") =>
                 /\ epc \notin Annotation
                 /\ pos' = pos
                 /\ \A k \in 1 .. Len(calls') :
                        calls'[k][1] \in Annotation => calls'[k][2] < pos'
          /\ pos' # pos => (epc \notin Methods /\ pos' \in {0, pos + 1})]_vars

C13_Witness ==
    /\ fn = "getTotalWalletNfts"
    /\ retryCount >= 1
    /\ epc = "getLockedTill"
    /\ pos >= 2
    /\ CallCount("getTokenId", pos) = 1
    /\ CallCount("getLockedTill", pos - 1) = 1

\* the NFTs of the index up to position n whose expiry is zero / non-zero
Unlocked(n) == {i \in 1 .. n : lockedTill[i] = 0}
Locked(n) == {i \in 1 .. n : lockedTill[i] # 0}
\* the NFTs the walk has classified so far
Classified == IF epc \in Methods THEN pos - 1 ELSE pos

\* C14: in getTotalWalletNfts with no failing call every NFT taken so far
\* is counted once on the side its expiry selects, and the walk returns
\* only at the end of the index, with every NFT annotated once:
\* ownedCount + rentedCount = N
C14_CountAllFullWalk ==
    (fn = "getTotalWalletNfts" /\ owner /\ epc \in Methods \cup {"loop", "returned"}) =>
        /\ ownedCount = Cardinality(Unlocked(Classified))
        /\ rentedCount = Cardinality(Locked(Classified))
        /\ epc = "returned" =>
              /\ pos = ownedNfts
              /\ ownedCount + rentedCount = ownedNfts
              /\ TotalResult = FailureFreeCount
              /\ \A i \in 1 .. ownedNfts :
                    CallCount("getTokenId", i) = 1 /\ CallCount("getLockedTill", i) = 1

C14_Witness ==
    /\ fn = "getTotalWalletNfts"
    /\ epc = "returned"
    /\ ownedNfts > 2 * pageSize
    /\ ownedCount > pageSize
    /\ rentedCount > 0
    /\ type = "rented"

\* the positions of getTotalWalletNfts inside a walk (the try block)
InWalk == {"fetch", "loop"} \cup Methods

\* C15: getTotalWalletNfts is in its (retryCount + 1)-th walk, which is at
\* most the 5th; each walk has read the NFTs from the first one up to its
\* position; the call ends by throwing exactly when 5 walks have failed,
\* and never returns a count then
C15_AtMostFiveWalks ==
    fn = "getTotalWalletNfts" =>
        /\ retryCount <= 5
        /\ epc \in InWalk \cup {"catch", "slept"} => retryCount + 1 <= 5
        /\ Len(sleeps) = retryCount + (IF epc = "slept" THEN 1 ELSE 0)
        /\ epc = "threw" <=> retryCount = 5
        /\ epc = "returned" => retryCount < 5
        /\ epc \in {"loop"} \cup Methods =>
              /\ Len(calls) >= Len(Reads(fn)) * Classified
              /\ \A i \in 1 .. Classified :
                    calls[Len(Reads(fn)) * i] = <<"getLockedTill", i>>

C15_Witness ==
    /\ fn = "getTotalWalletNfts"
    /\ epc = "threw"
    /\ retryCount = 5
    /\ pos = ownedNfts
    /\ pos > 1
    /\ ownedCount + rentedCount > ownedNfts

\* C16: the k-th sleep of getTotalWalletNfts is 1000 * 2^(k-1) ms, whatever
\* the walk did, so the delays are strictly increasing
C16_DelayDoubles ==
    \A k \in 1 .. Len(sleeps) :
        /\ sleeps[k] = 1000 * Pow(2, k - 1)
        /\ k > 1 => sleeps[k - 1] < sleeps[k]

C16_Witness ==
    /\ fn = "getTotalWalletNfts"
    /\ sleeps = <<1000, 2000, 4000, 8000, 16000>>

\* exponentialBackoff is over; it returned what a fetchFn call resolved to;
\* it is over with every fetchFn call rejected
BackoffDone == bpc \in {"returned", "threw"} /\ fetched >= 1
Succeeded == BackoffDone /\ attempt <= maxRetries
AllFailed == BackoffDone /\ attempt > maxRetries

\* C17: when fetchFn resolves on its k-th call after k-1 rejections,
\* exponentialBackoff returns the decimal string of the resolved wei ("0.0"
\* for a falsy result), having made exactly k calls and k-1 waits
C17_SuccessAfterFailures ==
    Succeeded =>
        /\ bpc = "returned"
        /\ ~returnValue.null
        /\ ParseEther(returnValue.str) = (IF result.falsy THEN 0 ELSE result.wei)
        /\ result.falsy => returnValue.str = [whole |-> 0, frac |-> 0]
        /\ fetched = attempt + 1
        /\ Len(delays) = fetched - 1

C17_Witness ==
    /\ Succeeded
    /\ fetched = 5
    /\ Len(delays) = 4
    /\ result = BigNumber(Unit + 1)
    /\ returnValue = String([whole |-> 1, frac |-> 1])

C20_DelayLowerBoundDoubles ==
    \A k \in 1 .. Len(delays) :
        LET lo == baseDelay * Pow(2, k - 1)
        IN  lo * delays[k].den <= delays[k].num /\ delays[k].num < 2 * lo * delays[k].den

\* C21: when a contract read for an NFT of the page fails, getWalletNfts
\* does not fail as a whole (it fails only if the index request failed,
\* before any NFT is taken)
C21_AnnotationFailureIsPartial ==
    (fn = "getWalletNfts" /\ epc = "threw") => pos = 0

\* C22: one checkout call hands at most one transaction to the submission,
\* and that one names every selected NFT, in order; after a failed
\* submission the call has thrown with that single transaction issued
C22_SingleSubmission ==
    /\ Len(txs) <= 1
    /\ (cpc \in {"sent", "threw"} /\ ~nfts.null) =>
          /\ Len(txs) = 1
          /\ txs[1].tokenIds = [i \in 1 .. Len(nfts.list) |-> nfts.list[i].tokenId]
          /\ Len(txs[1].nftAddresses) = Len(nfts.list)
    /\ nfts.null => txs = << >>

C22_Witness ==
    /\ entry = "checkoutNFTs"
    /\ cpc = "threw"
    /\ Len(nfts.list) = MaxNfts
    /\ Len(txs) = 1
    /\ txs[1].method = "withdrawMultiple"

\* C29: when getTotalWalletNfts throws, 5 sleeps have been made, the last
\* of 16000 ms after the 5th failed walk, 31000 ms in all; the throw
\* follows the sleep at once, no walk in between
C29_SleepBeforeBoundCheck ==
    fn = "getTotalWalletNfts" =>
        /\ epc = "threw" =>
              /\ Len(sleeps) = 5
              /\ sleeps[5] = 16000
              /\ SumSeq(sleeps) = 31000
        /\ (epc = "slept" /\ Len(sleeps) = 5) => retryCount = 4
        /\ (epc \in InWalk) => Len(sleeps) < 5

C29_Witness ==
    /\ fn = "getTotalWalletNfts"
    /\ epc = "threw"
    /\ SumSeq(sleeps) = 31000
    /\ calls = << >>

\* C30: checkoutNFTs with a null selection or an empty selection list
\* submits no transaction
C30_NoSubmissionWithoutSelection ==
    (entry = "checkoutNFTs" /\ (nfts.null \/ nfts.list = << >>)) => txs = << >>

\* the selected NFTs whose fee is below one wei, and a list without its i-th entry
SubUnit == {i \in 1 .. Len(nfts.list) : NumLess(nfts.list[i].fee, OneWeiLiteral)}
Without(list, i) == SubSeq(list, 1, i - 1) \o SubSeq(list, i + 1, Len(list))

\* C24: an NFT whose fee is below one wei has its entry at its index in
\* every output sequence, its creditUsed entry is 0, and the other NFTs
\* are allotted the credit they are allotted when it is not selected
C24_SubUnitFee ==
    \A k \in Allocations : \A i \in SubUnit :
        /\ Len(txs[k].nftAddresses) = Len(nfts.list)
        /\ Len(txs[k].values) = Len(nfts.list)
        /\ Len(txs[k].creditUsed) = Len(nfts.list)
        /\ txs[k].tokenIds[i] = nfts.list[i].tokenId
        /\ txs[k].values[i] = HexStripZeros(ToHexString(FeeWei(i)))
        /\ txs[k].creditUsed[i] = 0
        /\ Without(txs[k].creditUsed, i)
               = processNfts(Without(nfts.list, i), totalCreditUsed).creditUsed

C24_Witness ==
    /\ Allocations # {}
    /\ Len(nfts.list) = 3
    /\ SubUnit = {2}
    /\ FeeWei(2) = 1
    /\ txs[1].creditUsed[1] > 0
    /\ txs[1].creditUsed[3] > 0

\* C25: every wei amount up to the available credit, carried to the next
\* iteration as a JS number (formatEther, parseFloat) and converted back
\* (toFixed, parseEther), is the same amount again
C25_CarryRoundTrip ==
    entry # "none" =>
        \A w \in 0 .. CreditWei : ParseEther(ToFixed(CarryCredit(w))) = w

\* a negative fee or a negative credit is passed
NegativeInput ==
    \/ totalCreditUsed.m < 0
    \/ \E i \in 1 .. Len(nfts.list) : nfts.list[i].fee.m < 0

\* C23: with a negative fee or a negative credit the checkout call throws,
\* no allocation is built and nothing is handed to the submission; no
\* creditUsed entry of an allocation is ever negative
C23_NegativeInputRejected ==
    /\ (entry # "none" /\ ~nfts.null /\ NegativeInput) => (cpc = "threw" /\ txs = << >>)
    /\ \A k \in Allocations : \A i \in 1 .. Len(txs[k].creditUsed) :
           txs[k].creditUsed[i] >= 0

\* C27: every call of getTotalWalletNfts ends: it returns or it throws
C27_CountAllTerminates == <>(epc \in {"returned", "threw"})

C27_Witness ==
    /\ fn = "getTotalWalletNfts"
    /\ epc = "returned"
    /\ retryCount = maxWalks - 1
    /\ ownedNfts = MaxLiveItems
    /\ ownedCount + rentedCount > ownedNfts

\* what a call with frame f holds and returns when it runs alone: the page
\* walks count every NFT taken and return the NFTs of the (first) page, the
\* rented ones in rentals with their expiry; the counting walk counts, in
\* each of its walks, no more than the wallet's NFTs of either kind
RunsAsAlone(f) ==
    LET free == {i \in 1 .. f.ownedNfts : f.lockedTill[i] = 0}
        rented == {i \in 1 .. f.ownedNfts : f.lockedTill[i] # 0}
        paged == f.fn \in {"getWalletNfts", "getVaultNFTs"}
    IN  /\ paged => (f.count = f.pos /\ f.ownedCount = 0 /\ f.rentedCount = 0)
        /\ (paged /\ f.epc = "returned") =>
              /\ {f.deposits[k] : k \in 1 .. Len(f.deposits)}
                     = (IF f.fn = "getVaultNFTs" THEN 1 .. f.ownedNfts ELSE free)
              /\ \A k \in 2 .. Len(f.deposits) : f.deposits[k - 1] < f.deposits[k]
              /\ {f.rentals[k] : k \in 1 .. Len(f.rentals)}
                     = (IF f.fn = "getVaultNFTs" THEN {}
                        ELSE {[nft |-> i, end |-> f.lockedTill[i]] : i \in rented})
              /\ \A k \in 2 .. Len(f.rentals) : f.rentals[k - 1].nft < f.rentals[k].nft
        /\ f.fn = "getTotalWalletNfts" =>
              /\ f.deposits = << >> /\ f.rentals = << >> /\ f.count = 0
              /\ f.ownedCount <= (f.retryCount + 1) * Cardinality(free)
              /\ f.rentedCount <= (f.retryCount + 1) * Cardinality(rented)
              /\ (f.epc = "returned" /\ f.retryCount = 0) =>
                    (f.ownedCount = Cardinality(free) /\ f.rentedCount = Cardinality(rented))
              /\ Len(f.sleeps) = f.retryCount + (IF f.epc = "slept" THEN 1 ELSE 0)

\* C26: of two calls interleaved at their awaits, each holds and returns
\* what it does when it runs alone on its wallet
C26_InterleavedWalksIndependent == RunsAsAlone(Frame) /\ RunsAsAlone(suspended)

C26_Witness ==
    /\ fn = "getTotalWalletNfts"
    /\ epc = "slept"
    /\ retryCount = 1
    /\ pos = 2
    /\ rentedCount = 1
    /\ suspended.fn = "getWalletNfts"
    /\ suspended.epc = "returned"
    /\ Len(suspended.rentals) = 1
    /\ suspended.ownedNfts # ownedNfts

\* the string str starts with the string pre
StartsWith(str, pre) ==
    Len(str) >= Len(pre) /\ \A j \in 1 .. Len(pre) : str[j] = pre[j]

\* C28: an image URI that starts with "ipfs://" becomes
\* "https://ipfs.io/ipfs/" and the rest of the URI; any other URI is left
\* as it is; rewriting the result once more changes nothing
C28_ImageUriRewrite ==
    rpc \in {"once", "returned"} =>
        IF StartsWith(uri, ipfsPrefix)
        THEN /\ Len(image) = Len(ipfsGateway) + Len(uri) - Len(ipfsPrefix)
             /\ StartsWith(image, ipfsGateway)
             /\ \A j \in 1 .. (Len(uri) - Len(ipfsPrefix)) :
                    image[Len(ipfsGateway) + j] = uri[Len(ipfsPrefix) + j]
        ELSE image = uri

C28_Witness ==
    /\ rpc = "returned"
    /\ uri = ipfsPrefix \o <<"Q", "m">>
    /\ image = ipfsGateway \o <<"Q", "m">>

\* C31: whatever getWalletNfts returns is an object with the fields rentals
\* and deposits, also when the wallet argument is missing
C31_ResultHasRentalsAndDeposits ==
    (fn = "getWalletNfts" /\ epc = "returned") =>
        /\ WalletNftsResult.kind = "object"
        /\ {"rentals", "deposits"} \subseteq DOMAIN WalletNftsResult

\* every handler called has ended, none by a rejected await
AllHandlersDone ==
    /\ handlers # << >>
    /\ \A i \in 1 .. Len(handlers) : handlers[i].hpc = "done"

\* the session published for the event that handler h handled
PublishedFor(h) ==
    IF h.accounts = << >>
    THEN /\ session.publicKey = 0
         /\ session.user = 0
         /\ session.proxyWallet = 0
         /\ session.accounts = NoItem
    ELSE /\ session.publicKey = h.accounts[1]
         /\ session.user = h.accounts[1]
         /\ session.proxyWallet = h.proxyWallet
         /\ session.accounts = Item(h.accounts)

\* every request for the chain id found the right chain, and no event
\* carried the account the handler was registered with
RightChainNewAccounts ==
    /\ session.changeChain = FALSE
    /\ \A i \in 1 .. Len(handlers) :
          handlers[i].accounts = << >> \/ handlers[i].accounts[1] # publicKey

\* C32: once every handler of the accountsChanged events has ended, the
\* published session is that of the last event: nobody when it carried no
\* account, else its first account (here for events on the right chain
\* whose accounts are not the registered one, in any interleaving)
C32_SessionOfLastEvent ==
    (AllHandlersDone /\ RightChainNewAccounts) => PublishedFor(handlers[Len(handlers)])

====
